---- MODULE Spec2Model ----
(***************************************************************************)
(* xpub-scan: model of src/main.rs (argument resolution, child-key         *)
(* derivation loop, the four per-kind balance loops, query mode) and of    *)
(* src/api.rs (get_address, get_address_sats, display_api_response,        *)
(* get_value_by_path).                                                     *)
(*                                                                         *)
(* Child numbers are u32 values whose top bit is the hardened flag.  The   *)
(* model keeps that layout at a reduced width: IndexBits index bits plus   *)
(* one hardened bit, so the "u32" of the path arithmetic is                *)
(* 0 .. 2^(IndexBits+1) - 1 and the largest normal index is                *)
(* 2^IndexBits - 1 (2^31 - 1 in the program).                              *)
(***************************************************************************)
EXTENDS Integers, Sequences, FiniteSets, TLC

IndexBits == 4

MaxCount == 3

HardenedBit == 2 ^ IndexBits

U32Mod == 2 * HardenedBit

MaxIndex == HardenedBit - 1

DefaultCount == 10

SatsPerBtc == 100000000

VARIABLES
    pc,        \* position of main: start, derive, scan, await, qawait, done, error, panic, usage
    err,       \* "none", or the error / panic that ended the run
    query,     \* the --query argument as an option (<<>> or <<addr>>)
    types,     \* addr_types
    count,     \* count
    start,     \* start
    limit,     \* limit
    cn,        \* cn
    parent,    \* path_except_last
    pubkeys,   \* pubkeys
    pos,       \* which of the four loops main is in (k) and the position in pubkeys (i)
    apiEnv,    \* the API_* environment, <<>> until get_address(_sats) first reads it
    queries,   \* the addresses handed to reqwest::get, in order
    emitted,   \* the lines printed by println!, in order
    printed,   \* query mode: the JSON printed by display_api_response (<<>> or <<json>>)
    trace,     \* what main did: xpub parsed, path parsed, scan set up, derive_pub calls
    conv       \* the inputs and result of one get_address_sats evaluation (SpecConv)

vars == <<pc, err, query, types, count, start, limit, cn, parent, pubkeys, pos,
          apiEnv, queries, emitted, printed, trace, conv>>

Range(s) == {s[j] : j \in 1..Len(s)}

Min(S) == CHOOSE x \in S : \A y \in S : x <= y

Ok(v) == [ok |-> TRUE, v |-> v]

Err(e) == [ok |-> FALSE, e |-> e]

----------------------------------------------------------------------------
(* bip32::ChildNumber and DerivationPath as main.rs uses them *)

Normal(n) == [hardened |-> FALSE, index |-> n]

Hardened(n) == [hardened |-> TRUE, index |-> n]

\* u32::from(ChildNumber): the index, with the top bit set when hardened
ToU32(c) == IF c.hardened THEN c.index + HardenedBit ELSE c.index

\* ChildNumber::from_normal_idx / from_hardened_idx: the index must not have the top bit
FromIdx(h, n) ==
    IF n \div HardenedBit = 0
    THEN Ok([hardened |-> h, index |-> n])
    ELSE Err("InvalidChildNumber")

\* ChildNumber::increment
Increment(c) == FromIdx(c.hardened, c.index + 1)

\* A path string is a sequence of '/'-separated components; a component is
\* a decimal number (digits) with an optional hardened marker, or not a number.
Component(n, h) == [digits |-> TRUE, num |-> n, mark |-> h]

NotANumber == [digits |-> FALSE, num |-> 0, mark |-> FALSE]

\* ChildNumber::from_str
ParseComponent(c) ==
    IF ~c.digits \/ c.num < 0 \/ c.num >= U32Mod
    THEN Err("InvalidChildNumberFormat")
    ELSE FromIdx(c.mark, c.num)

\* DerivationPath::from_str
RECURSIVE ParsePath(_)
ParsePath(cs) ==
    IF cs = <<>> THEN Ok(<<>>)
    ELSE LET c == ParseComponent(cs[1])
             r == ParsePath(Tail(cs))
         IN IF ~c.ok THEN c
            ELSE IF ~r.ok THEN r
            ELSE Ok(<<c.v>> \o r.v)

\* get_path_except_last
get_path_except_last(path) == SubSeq(path, 1, Len(path) - 1)

\* DerivationPath::child
Child(path, c) == Append(path, c)

----------------------------------------------------------------------------
(* bip32::Xpub: a key is identified by the chain of normal indices that     *)
(* derived it from the parsed xpub                                          *)

RootKey == <<>>

\* derive_pub that takes a hardened component as the normal one of the same index
RECURSIVE derive_pub_unchecked(_, _, _)
derive_pub_unchecked(key, path, bad) ==
    IF path = <<>> THEN Ok(key)
    ELSE IF bad = 1 THEN Err("Secp256k1")
    ELSE derive_pub_unchecked(Append(key, path[1].index), Tail(path), bad - 1)

\* Xpub::derive_pub: ckd_pub folded over the path, left to right.  A hardened
\* component fails; `bad` is the position at which the curve arithmetic fails
\* (0: nowhere).
RECURSIVE derive_pub(_, _, _)
derive_pub(key, path, bad) ==
    IF path = <<>> THEN Ok(key)
    ELSE IF path[1].hardened THEN Err("CannotDeriveFromHardenedKey")
    ELSE IF bad = 1 THEN Err("Secp256k1")
    ELSE derive_pub(Append(key, path[1].index), Tail(path), bad - 1)

KindOrder == <<"P2PKH", "P2SHWPKH", "P2WPKH", "P2TR">>

\* Address::p2pkh / p2shwpkh / p2wpkh / p2tr
Encode(kind, key) == [kind |-> kind, key |-> key]

----------------------------------------------------------------------------
(* src/api.rs.  Strings that the code splits are sequences of characters;   *)
(* a JSON value is tagged: obj (m: key -> value), num (n), big (an integer  *)
(* above u32::MAX), str.                                                    *)

JObj(m) == [t |-> "obj", m |-> m]

JNum(n) == [t |-> "num", n |-> n]

JBig == [t |-> "big"]

JStr == [t |-> "str"]

\* str::split('.'): the pieces between the dots, empty pieces included
RECURSIVE SplitDots(_, _)
SplitDots(s, cur) ==
    IF s = <<>> THEN <<cur>>
    ELSE IF s[1] = "." THEN <<cur>> \o SplitDots(Tail(s), <<>>)
    ELSE SplitDots(Tail(s), Append(cur, s[1]))

\* T::deserialize for T = u32: a non-negative integer that fits 32 bits
DeserializeU32(v) ==
    IF v.t = "num" /\ v.n >= 0
    THEN Ok(v.n)
    ELSE Err("Deserialize")

\* the loop of get_value_by_path
RECURSIVE Walk(_, _)
Walk(cur, keys) ==
    IF keys = <<>> THEN Ok(cur)
    ELSE IF cur.t # "obj" THEN Err("ExpectedObject")
    ELSE IF keys[1] \notin DOMAIN cur.m THEN Err("KeyNotFound")
    ELSE Walk(cur.m[keys[1]], Tail(keys))

get_value_by_path(map, path) ==
    LET w == Walk(map, SplitDots(path, <<>>))
    IN IF w.ok THEN DeserializeU32(w.v) ELSE w

\* ConvertUnit with a default arm that passes the balance through
ConvertUnitLenient(bal, unit) ==
    IF unit = "btc" THEN Ok(bal \div SatsPerBtc) ELSE Ok(bal)

\* the match on unit of get_address_sats
ConvertUnit(bal, unit) ==
    IF unit = "btc" THEN Ok(bal \div SatsPerBtc)
    ELSE IF unit = "sat" THEN Ok(bal)
    ELSE Err("InvalidUnit")

\* get_address after the request was sent: resp is what came back, a JSON
\* object, "netfail" (reqwest::get failed) or "notjson" (response.json() failed)
get_address(resp) ==
    IF resp.t = "netfail" THEN Err("FetchFailed")
    ELSE IF resp.t # "obj" THEN Err("JsonParseFailed")
    ELSE Ok(resp)

\* get_address_sats from the response on
get_address_sats(resp, path, unit) ==
    LET map == get_address(resp)
        bal == get_value_by_path(map.v, path)
    IN IF ~map.ok THEN map
       ELSE IF ~bal.ok THEN bal
       ELSE ConvertUnit(bal.v, unit)

NetFail == [t |-> "netfail"]

NotJson == [t |-> "notjson"]

----------------------------------------------------------------------------
(* src/main.rs: argument and environment resolution *)

\* Option<T> is a sequence of length 0 (None) or 1 (Some)
None == <<>>

Some(x) == <<x>>

\* a count given as text: decimal digits with value n, or not a number
NumText(n) == [digits |-> TRUE, n |-> n]

BadText == [digits |-> FALSE, n |-> 0]

\* str::parse::<u32>
ParseU32(t) ==
    IF t.digits /\ t.n >= 0 /\ t.n < U32Mod THEN Ok(t.n) ELSE Err("ParseInt")

\* str::parse::<String>
ParseString(t) == Ok(t)

\* env::var(key) followed by parse::<T>(): None when the variable is unset,
\* else the result of parsing its value
EnvU32(envval) == IF envval = None THEN None ELSE Some(ParseU32(envval[1]))

EnvString(envval) == IF envval = None THEN None ELSE Some(ParseString(envval[1]))

\* get_value: the flag, else the environment value if it parses, else the default
get_value(opt, parsed, defval) ==
    IF opt # None THEN opt[1]
    ELSE IF parsed # None /\ parsed[1].ok THEN parsed[1].v
    ELSE defval

\* a --type token: a word, possibly with blanks around it
Tok(w) == [pad |-> FALSE, word |-> w]

Padded(w) == [pad |-> TRUE, word |-> w]

\* str::trim
Trim(t) == [t EXCEPT !.pad = FALSE]

\* get_vec: the flag, else the environment value split on ',' with each piece
\* trimmed, else the default
get_vec(opt, envval, defval) ==
    IF opt # None THEN opt[1]
    ELSE IF envval # None THEN [j \in 1..Len(envval[1]) |-> Trim(envval[1][j])]
    ELSE defval

\* str::to_uppercase on the words the model draws
ToUpper(w) ==
    CASE w = "p2pkh" -> "P2PKH"
      [] w = "p2tr" -> "P2TR"
      [] w = "p2wpkh" -> "P2WPKH"
      [] OTHER -> w

\* parse_enum_values
RECURSIVE parse_enum_values(_)
parse_enum_values(values) ==
    IF values = <<>> THEN Ok(<<>>)
    ELSE LET v == values[1]
             rest == parse_enum_values(Tail(values))
         IN IF v.pad \/ ToUpper(v.word) \notin Range(KindOrder)
            THEN Err("InvalidEnumValue")
            ELSE IF ~rest.ok THEN rest
            ELSE Ok(<<ToUpper(v.word)>> \o rest.v)

\* Xpub::from_str
XpubFromStr(s) == IF s = "xpub-wellformed" THEN Ok(RootKey) ELSE Err("InvalidXpub")

(* the inputs of a run *)

QueryArgs == {None, Some("bc1q-query")}

\* counts: the small ones, and the ones around the largest normal index and
\* around u32::MAX (U32Mod itself is not a u32)
CountNums ==
    (0..MaxCount) \cup {HardenedBit - 1, HardenedBit, U32Mod - 2, U32Mod - 1, U32Mod}

CountArgs == {None, Some(BadText)} \cup {Some(NumText(n)) : n \in CountNums}

CountEnvs == {None, Some(BadText), Some(NumText(2))}

XpubArgs == {None, Some("xpub-wellformed"), Some("xpub-garbage")}

XpubEnvs == {None, Some("xpub-wellformed")}

ParentTexts == {<<>>, <<Component(0, FALSE)>>, <<Component(0, TRUE)>>}

\* last components: the first indices, the last ones, and one past the last
LastNums == {0, 1, MaxIndex - MaxCount, MaxIndex - 1, MaxIndex, HardenedBit}

LastTexts ==
    {NotANumber} \cup {Component(n, h) : n \in LastNums, h \in BOOLEAN}

PathTexts == {<<>>} \cup {Append(q, c) : q \in ParentTexts, c \in LastTexts}

PathArgs == {None} \cup {Some(t) : t \in PathTexts}

PathEnvs == {None, Some(<<Component(0, FALSE), Component(1, FALSE)>>)}

TypeArgs ==
    { None,
      Some(<<Tok("P2WPKH")>>),
      Some(<<Tok("p2tr"), Tok("P2PKH")>>),
      Some(<<Tok("P2PKH"), Tok("P2PKH")>>),
      Some(<<Tok("P2SHWPKH"), Tok("P2WPKH")>>),
      Some(<<Tok("P2TR"), Padded("P2PKH")>>),
      Some(<<Tok("P2SH")>>) }

TypeEnvs == {None, Some(<<Tok("P2TR"), Padded("p2wpkh")>>)}

\* A setting is given by its flag, by its environment variable, by neither,
\* or (for the flags in both) by the two at once.
Sources(flags, envs, both) ==
    {src \in [arg : flags, env : envs] :
        src.arg = None \/ src.env = None \/ src.arg \in both}

Inputs ==
    [query : QueryArgs,
     xpub : Sources(XpubArgs, XpubEnvs, {Some("xpub-garbage")}),
     path : Sources(PathArgs, PathEnvs, {Some(<<>>)}),
     count : Sources(CountArgs, CountEnvs, {Some(NumText(1))}),
     type : Sources(TypeArgs, TypeEnvs, {Some(<<Tok("P2WPKH")>>)})]

NoTrace == [xpub |-> FALSE, path |-> FALSE, setup |-> FALSE, derives |-> 0]

NoPos == [k |-> 0, i |-> 0]

NotRun == Err("NotRun")

NoConv == [run |-> FALSE, resp |-> NotJson, path |-> <<>>, unit |-> "",
           extracted |-> NotRun, out |-> NotRun]

InitVars ==
    /\ pc = "start" /\ err = "none" /\ query = None
    /\ types = <<>> /\ count = 0 /\ start = 0 /\ limit = 0
    /\ cn = Normal(0) /\ parent = <<>> /\ pubkeys = <<>> /\ pos = NoPos
    /\ apiEnv = None /\ queries = <<>> /\ emitted = <<>> /\ printed = None
    /\ trace = NoTrace

Init == InitVars /\ conv = NoConv

ScanVars == <<types, count, start, limit, cn, parent, pubkeys, pos>>

IoVars == <<apiEnv, queries, emitted, printed>>

\* main returns Err(e) (p = "error"), panics (p = "panic") or is ended by the
\* argument parser (p = "usage") before the scan is set up
Halt(p, e, tr) ==
    /\ pc' = p /\ err' = e /\ trace' = tr
    /\ UNCHANGED <<query, ScanVars, IoVars, conv>>

\* main, lines 100-115, for the inputs in: the scan is set up, or main ends
SetUpScan(in) ==
    LET haveXpub == in.xpub.arg # None \/ in.xpub.env # None
        val == IF in.xpub.arg # None THEN in.xpub.arg[1] ELSE in.xpub.env[1]
        xpub == XpubFromStr(val)
        path == get_value(in.path.arg, EnvString(in.path.env),
                          <<Component(0, FALSE), Component(0, FALSE)>>)
        deriv_path == ParsePath(path)
        types_vec == get_vec(in.type.arg, in.type.env, <<>>)
        addr_types == parse_enum_values(types_vec)
        c == get_value(IF in.count.arg = None THEN None
                       ELSE Some(ParseU32(in.count.arg[1]).v),
                       EnvU32(in.count.env), DefaultCount)
        last == deriv_path.v[Len(deriv_path.v)]
        st == ToU32(last)
        tr1 == [NoTrace EXCEPT !.xpub = TRUE]
        tr2 == [tr1 EXCEPT !.path = TRUE]
        Assign(lim) ==
            /\ types' = addr_types.v /\ count' = c /\ start' = st /\ limit' = lim
            /\ cn' = last /\ parent' = get_path_except_last(deriv_path.v)
            /\ pubkeys' = <<>> /\ pos' = NoPos /\ query' = None
            /\ trace' = [tr2 EXCEPT !.setup = TRUE]
            /\ UNCHANGED <<IoVars, conv>>
    IN IF ~haveXpub THEN Halt("panic", "ScanXpubNotSet", NoTrace)
       ELSE IF ~xpub.ok THEN Halt("error", xpub.e, tr1)
       ELSE IF ~deriv_path.ok THEN Halt("error", deriv_path.e, tr2)
       ELSE IF deriv_path.v = <<>> THEN Halt("panic", "UnwrapNone", tr2)
       ELSE IF ~addr_types.ok THEN Halt("error", addr_types.e, tr2)
       ELSE IF st + c < U32Mod
            THEN Assign(st + c) /\ pc' = "derive" /\ err' = "none"
            \* start + count overflows u32: a panic where overflow checks are
            \* compiled in, the wrapped sum where they are not
            ELSE \/ Assign(0) /\ pc' = "panic" /\ err' = "AddOverflow"
                 \/ Assign((st + c) % U32Mod) /\ pc' = "derive" /\ err' = "none"

\* Start with the xpub resolved and parsed before args.query is looked at
StartXpubFirst ==
    /\ pc = "start"
    /\ \E in \in Inputs :
         LET haveXpub == in.xpub.arg # None \/ in.xpub.env # None
             val == IF in.xpub.arg # None THEN in.xpub.arg[1] ELSE in.xpub.env[1]
         IN IF in.count.arg # None /\ ~ParseU32(in.count.arg[1]).ok
            THEN /\ pc' = "usage" /\ err' = "InvalidValue" /\ query' = in.query
                 /\ UNCHANGED <<trace, ScanVars, IoVars, conv>>
            ELSE IF in.query # None /\ haveXpub /\ XpubFromStr(val).ok
                 THEN /\ pc' = "query" /\ query' = in.query
                      /\ trace' = [NoTrace EXCEPT !.xpub = TRUE]
                      /\ UNCHANGED <<err, ScanVars, IoVars, conv>>
                 ELSE SetUpScan(in)

\* main, lines 91-115: Args::parse(), the --query short cut, the scan set-up
Start ==
    /\ pc = "start"
    /\ \E in \in Inputs :
         IF in.count.arg # None /\ ~ParseU32(in.count.arg[1]).ok
         THEN /\ pc' = "usage" /\ err' = "InvalidValue" /\ query' = in.query
              /\ UNCHANGED <<trace, ScanVars, IoVars, conv>>
         ELSE IF in.query # None
              THEN /\ pc' = "query" /\ query' = in.query
                   /\ UNCHANGED <<err, trace, ScanVars, IoVars, conv>>
              ELSE SetUpScan(in)

----------------------------------------------------------------------------
(* src/main.rs: the derivation loop, lines 119-123 *)

\* the while condition with >= for >
LoopConditionInclusive == limit >= ToU32(cn)

\* the while condition
LoopCondition == limit > ToU32(cn)

\* where a run that ended with Err(e) stands
Fail(e) == pc' = "error" /\ err' = e

\* DeriveStep as a single pass: the key just derived is queried at once
DeriveStepSinglePass ==
    /\ pc = "derive"
    /\ LoopCondition
    /\ LET dp == Child(parent, cn)
       IN \E bad \in 0..Len(dp) :
            LET pk == derive_pub(RootKey, dp, bad)
                nxt == Increment(cn)
            IN /\ trace' = [trace EXCEPT !.derives = @ + 1]
               /\ IF ~pk.ok
                  THEN Fail(pk.e) /\ UNCHANGED <<pubkeys, cn, queries, emitted>>
                  ELSE /\ pubkeys' = Append(pubkeys, pk.v)
                       /\ queries' = Append(queries, Encode("P2PKH", pk.v))
                       /\ emitted' = Append(emitted, [addr |-> Encode("P2PKH", pk.v),
                                                      bal |-> 0])
                       /\ IF ~nxt.ok
                          THEN Fail(nxt.e) /\ UNCHANGED cn
                          ELSE cn' = nxt.v /\ UNCHANGED <<pc, err>>
    /\ UNCHANGED <<query, types, count, start, limit, parent, pos, apiEnv, printed,
                   conv>>

\* one iteration: derive_pub at path_except_last.child(cn), push, increment
DeriveStep ==
    /\ pc = "derive"
    /\ LoopCondition
    /\ LET dp == Child(parent, cn)
       IN \E bad \in 0..Len(dp) :
            LET pk == derive_pub(RootKey, dp, bad)
                nxt == Increment(cn)
            IN /\ trace' = [trace EXCEPT !.derives = @ + 1]
               /\ IF ~pk.ok
                  THEN Fail(pk.e) /\ UNCHANGED <<pubkeys, cn>>
                  ELSE /\ pubkeys' = Append(pubkeys, pk.v)
                       /\ IF ~nxt.ok
                          THEN Fail(nxt.e) /\ UNCHANGED cn
                          ELSE cn' = nxt.v /\ UNCHANGED <<pc, err>>
    /\ UNCHANGED <<query, types, count, start, limit, parent, pos, IoVars, conv>>

(* src/main.rs: the four loops over pubkeys, lines 125-155 *)

\* the condition guarding the loop of one kind
Scanned(ts, kind) == ts = <<>> \/ kind \in Range(ts)

\* NextPos for a single pass over the keys with the kinds inside: the next
\* scanned kind at key i, else the first scanned kind at key i + 1
NextPosByIndex(ts, n, k, i) ==
    LET scanned == {j \in 1..4 : Scanned(ts, KindOrder[j]) /\ n > 0}
        later == {j \in scanned : j > k}
    IN IF i >= 1 /\ later # {} THEN [k |-> Min(later), i |-> i]
       ELSE IF scanned # {} /\ i < n THEN [k |-> Min(scanned), i |-> i + 1]
       ELSE [k |-> 5, i |-> 0]

\* The position after (k, i) in the four consecutive loops over n keys: the
\* next key of loop k, else the first key of the next loop whose condition
\* holds, else k = 5 (past the last loop).  (0, 0) is before the first loop.
NextPos(ts, n, k, i) ==
    IF k >= 1 /\ i < n THEN [k |-> k, i |-> i + 1]
    ELSE LET later == {j \in (k + 1)..4 : Scanned(ts, KindOrder[j]) /\ n > 0}
         IN IF later = {} THEN [k |-> 5, i |-> 0]
            ELSE [k |-> Min(later), i |-> 1]

MoveTo(p) ==
    /\ pos' = p
    /\ pc' = IF p.k > 4 THEN "done" ELSE "scan"

\* the while condition is false: on to the loops
DeriveDone ==
    /\ pc = "derive"
    /\ ~LoopCondition
    /\ MoveTo(NextPos(types, Len(pubkeys), 0, 0))
    /\ UNCHANGED <<err, query, types, count, start, limit, cn, parent, pubkeys,
                   IoVars, trace, conv>>

(* the API_* environment that src/api.rs reads *)

BalancePath == <<"b", ".", "f">>

ApiEnvs ==
    {[url |-> u, path |-> pth, unit |-> un] :
        u \in BOOLEAN, pth \in {None, Some(BalancePath)},
        un \in {None, Some("btc"), Some("sat"), Some("eth")}}

\* what the balance API may answer
Responses ==
    { NetFail, NotJson,
      JObj(<<"b">> :> JObj(<<"f">> :> JNum(800000000))),
      JObj(<<"b">> :> JObj(<<"g">> :> JNum(5))) }

\* env::var is read on every call; the environment does not change during a
\* run, so it is drawn when first read and kept
ReadEnv(e) == /\ e \in ApiEnvs
              /\ apiEnv = None \/ apiEnv = Some(e)
              /\ apiEnv' = Some(e)

\* get_address_sats up to the request: the two expect()s of get_address_sats,
\* the expect() of get_address, then reqwest::get
SendQuery ==
    /\ pc = "scan"
    /\ \E e \in ApiEnvs :
         /\ ReadEnv(e)
         /\ IF e.path = None THEN pc' = "panic" /\ err' = "BalancePathNotSet"
                                  /\ UNCHANGED queries
            ELSE IF e.unit = None THEN pc' = "panic" /\ err' = "BalanceUnitNotSet"
                                       /\ UNCHANGED queries
            ELSE IF ~e.url THEN pc' = "panic" /\ err' = "UrlTemplateNotSet"
                                /\ UNCHANGED queries
            ELSE /\ queries' = Append(queries, Encode(KindOrder[pos.k], pubkeys[pos.i]))
                 /\ pc' = "await" /\ UNCHANGED err
    /\ UNCHANGED <<query, ScanVars, emitted, printed, trace, conv>>

\* AfterReply that logs a failed balance query and goes on to the next address
AfterReplySkip(resp) ==
    LET bal == get_address_sats(resp, apiEnv[1].path[1], apiEnv[1].unit[1])
    IN IF ~bal.ok
       THEN /\ err' = bal.e
            /\ MoveTo(NextPos(types, Len(pubkeys), pos.k, pos.i))
            /\ UNCHANGED emitted
       ELSE /\ emitted' = Append(emitted, [addr |-> queries[Len(queries)],
                                            bal |-> bal.v])
            /\ MoveTo(NextPos(types, Len(pubkeys), pos.k, pos.i))
            /\ UNCHANGED err

\* AfterReply that prints the address line with a zero balance before it
\* returns the error of a failed balance query
AfterReplyPrintsFirst(resp) ==
    LET bal == get_address_sats(resp, apiEnv[1].path[1], apiEnv[1].unit[1])
    IN IF ~bal.ok
       THEN /\ Fail(bal.e) /\ UNCHANGED pos
            /\ emitted' = Append(emitted, [addr |-> queries[Len(queries)], bal |-> 0])
       ELSE /\ emitted' = Append(emitted, [addr |-> queries[Len(queries)],
                                            bal |-> bal.v])
            /\ MoveTo(NextPos(types, Len(pubkeys), pos.k, pos.i))
            /\ UNCHANGED err

\* the rest of the iteration once the API answered with resp: the balance or
\* the error of get_address_sats, println!, the next iteration
AfterReply(resp) ==
    LET bal == get_address_sats(resp, apiEnv[1].path[1], apiEnv[1].unit[1])
    IN IF ~bal.ok
       THEN Fail(bal.e) /\ UNCHANGED <<pos, emitted>>
       ELSE /\ emitted' = Append(emitted, [addr |-> queries[Len(queries)],
                                            bal |-> bal.v])
            /\ MoveTo(NextPos(types, Len(pubkeys), pos.k, pos.i))
            /\ UNCHANGED err

Reply ==
    /\ pc = "await"
    /\ \E resp \in Responses : AfterReply(resp)
    /\ UNCHANGED <<query, types, count, start, limit, cn, parent, pubkeys,
                   apiEnv, queries, printed, trace, conv>>

(* query mode: display_api_response, src/api.rs lines 33-37 *)

QuerySend ==
    /\ pc = "query"
    /\ \E e \in ApiEnvs :
         /\ ReadEnv(e)
         /\ IF ~e.url THEN pc' = "panic" /\ err' = "UrlTemplateNotSet"
                           /\ UNCHANGED queries
            ELSE /\ queries' = Append(queries, query[1])
                 /\ pc' = "qawait" /\ UNCHANGED err
    /\ UNCHANGED <<query, ScanVars, emitted, printed, trace, conv>>

QueryReply ==
    /\ pc = "qawait"
    /\ \E resp \in Responses :
         LET map == get_address(resp)
         IN IF ~map.ok
            THEN Fail(map.e) /\ UNCHANGED printed
            ELSE printed' = Some(map.v) /\ pc' = "done" /\ UNCHANGED err
    /\ UNCHANGED <<query, ScanVars, apiEnv, queries, emitted, trace, conv>>

Next ==
    \/ Start
    \/ DeriveStep
    \/ DeriveDone
    \/ SendQuery
    \/ Reply
    \/ QuerySend
    \/ QueryReply

Spec == Init /\ [][Next]_vars

\* the steps of a run after its start
Step ==
    \/ DeriveStep
    \/ DeriveDone
    \/ SendQuery
    \/ Reply
    \/ QuerySend
    \/ QueryReply

\* main is sequential and every await returns: a started run takes the step
\* it can take
FairSpec == Spec /\ WF_vars(Step)

----------------------------------------------------------------------------
(* get_address_sats as a function: one evaluation on drawn inputs *)

Balances ==
    {0, 1, 99999999, 100000000, 100000001, 199999999, 800000000, 2147483647}

ConvResponses ==
    {JObj(<<"b">> :> JObj(<<"f">> :> JNum(b))) : b \in Balances}
    \cup {JObj(<<"f">> :> JNum(b)) : b \in Balances}
    \cup { NetFail, NotJson,
           JObj(<<"f">> :> JNum(-1)),
           JObj(<<"f">> :> JBig),
           JObj(<<"f">> :> JStr),
           JObj(<<"b">> :> JNum(7)),
           JObj(<<>> :> JNum(3)) }

ConvPaths == {<<"b", ".", "f">>, <<"f">>, <<"b">>, <<>>, <<"b", ".", ".", "f">>}

Units == {"btc", "sat", "eth", "BTC", "sats", ""}

InitConv ==
    /\ InitVars
    /\ conv \in {[NoConv EXCEPT !.resp = r, !.path = q, !.unit = u] :
                    r \in ConvResponses, q \in ConvPaths, u \in Units}

\* get_address_sats on the drawn response, balance path and unit; the balance
\* that get_value_by_path extracted is kept beside the result
ConvertStep ==
    /\ ~conv.run
    /\ LET map == get_address(conv.resp)
       IN conv' = [conv EXCEPT
                     !.run = TRUE,
                     !.extracted = IF map.ok THEN get_value_by_path(map.v, conv.path)
                                   ELSE map,
                     !.out = get_address_sats(conv.resp, conv.path, conv.unit)]
    /\ UNCHANGED <<pc, err, query, ScanVars, IoVars, trace>>

NextConv == ConvertStep

SpecConv == InitConv /\ [][NextConv]_vars

----------------------------------------------------------------------------
(* Properties *)

Final == {"done", "error", "panic", "usage"}

\* the kinds a scan covers
ScannedKinds == {kd \in Range(KindOrder) : Scanned(types, kd)}

\* the child index an address was derived at
IndexOf(a) == a.key[Len(a.key)]

\* the key at child index n under path_except_last
KeyAt(n) == [j \in 1..Len(parent) |-> parent[j].index] \o <<n>>

\* every printed line is the line of the query at the same place, and at most
\* one query is still unanswered
EmittedFollowQueries ==
    /\ Len(emitted) <= Len(queries)
    /\ Len(queries) <= Len(emitted) + 1
    /\ \A j \in 1..Len(emitted) : emitted[j].addr = queries[j]

\* C1: the balance queries and the printed lines are grouped by address kind
\* and, within a kind, ordered by strictly increasing child index; a kind is
\* queried over the whole index range before the first query of the next kind.
C1_GroupedByKind ==
    trace.setup =>
        /\ EmittedFollowQueries
        /\ \A a, b \in 1..Len(queries) :
              (a < b /\ queries[a].kind = queries[b].kind) =>
                  /\ IndexOf(queries[a]) < IndexOf(queries[b])
                  /\ \A m \in a..b : queries[m].kind = queries[a].kind
        /\ \A a \in 1..(Len(queries) - 1) :
              queries[a].kind # queries[a + 1].kind =>
                  /\ queries[a].key = pubkeys[Len(pubkeys)]
                  /\ queries[a + 1].key = pubkeys[1]

C1_Witness ==
    /\ trace.setup /\ pc = "done"
    /\ types = <<>> /\ count >= 2
    /\ Len(emitted) = 4 * count

\* C2 (as claimed): a scan that completes successfully has printed exactly one
\* line per (kind, index) for every scanned kind and every index of
\* [start, start + count), and no other line.
C2_ExactlyTheRange ==
    (trace.setup /\ pc = "done") =>
        /\ {emitted[j].addr : j \in 1..Len(emitted)} =
              {Encode(kd, KeyAt(n)) : kd \in ScannedKinds,
                                      n \in start..(start + count - 1)}
        /\ Len(emitted) = count * Cardinality(ScannedKinds)

C2_WrappedLimit ==
    /\ trace.setup /\ pc = "done"
    /\ start + count >= U32Mod
    /\ emitted = <<>>

DerivationErrors == {"CannotDeriveFromHardenedKey", "Secp256k1"}

IncrementError == "InvalidChildNumber"

QueryErrors ==
    {"FetchFailed", "JsonParseFailed", "KeyNotFound", "ExpectedObject",
     "Deserialize", "InvalidUnit"}

\* C3: fail-fast.  A step in which a derivation, an index increment or a
\* balance query fails ends the run in the error state, and from a state with
\* a failure no derivation, no balance query and no printed line follows.
C3_FailFast ==
    [][ /\ err' \in DerivationErrors \cup {IncrementError} \cup QueryErrors
           => pc' = "error"
        /\ err # "none" =>
             /\ trace'.derives = trace.derives
             /\ pubkeys' = pubkeys
             /\ queries' = queries
             /\ emitted' = emitted
             /\ pc' = pc ]_vars

C3_Witness ==
    /\ trace.setup /\ pc = "error" /\ err = "FetchFailed"
    /\ Len(emitted) >= 1
    /\ Len(queries) < Len(pubkeys) * Cardinality(ScannedKinds)

\* C4 (as claimed): a scan that ends in an error has printed no line.
C4_NoLineBeforeError ==
    (trace.setup /\ pc = "error") => emitted = <<>>

\* C4 (amended): when a scan ends in an error, the lines printed are exactly
\* those of the balance queries answered before it: none for a derivation
\* failure or an index overflow (no query was made), and one line per earlier
\* query, in order, when a balance query fails; with an invalid unit the first
\* query fails, so nothing is printed.
C4_LinesOfEarlierQueries ==
    (trace.setup /\ pc = "error") =>
        /\ err \in DerivationErrors \cup {IncrementError} =>
              queries = <<>> /\ emitted = <<>>
        /\ err \in QueryErrors =>
              /\ Len(queries) >= 1
              /\ Len(emitted) = Len(queries) - 1
              /\ \A j \in 1..Len(emitted) : emitted[j].addr = queries[j]
        /\ err = "InvalidUnit" => emitted = <<>>
        /\ err \in DerivationErrors \cup {IncrementError} \cup QueryErrors

C4_Witness ==
    /\ trace.setup /\ pc = "error" /\ err = "KeyNotFound"
    /\ Len(emitted) >= 2

\* no hardened component in the path, and start + count at most 2^IndexBits
\* (2^31 in the program)
ValidRange ==
    /\ trace.setup
    /\ \A j \in 1..Len(parent) : ~parent[j].hardened
    /\ ~cn.hardened
    /\ start + count <= HardenedBit

\* C5 (as claimed): on a range of valid normal indices the derivation phase
\* ends without the index-overflow error, and once it is over there is one key
\* per index of [start, start + count), in increasing order, each derived at
\* path_except_last.child(index); an increment fails only at index 2^31 - 1.
C5_ValidRangeDerives ==
    ValidRange =>
        /\ err # IncrementError
        /\ pc \in {"scan", "await", "done"} =>
              pubkeys = [j \in 1..count |-> KeyAt(start + j - 1)]
        /\ (pc = "error" /\ err = IncrementError) => cn.index = MaxIndex

C5_OverflowAtTopIndex ==
    /\ ValidRange /\ count >= 1
    /\ pc = "error" /\ err = IncrementError
    /\ Len(pubkeys) = count

HardenedPath ==
    /\ trace.setup
    /\ cn.hardened \/ \E j \in 1..Len(parent) : parent[j].hardened

\* C6 (as claimed): a scan whose path has a hardened component ends in a
\* derivation error whatever the count, never successfully, and prints nothing.
C6_HardenedAlwaysFails ==
    HardenedPath =>
        /\ emitted = <<>>
        /\ pc \in Final => pc = "error" /\ err \in DerivationErrors

\* C6 (amended): a scan whose path has a hardened component derives no key,
\* makes no balance query and prints nothing.  With count >= 1 and
\* start + count within u32 it ends in a derivation error at its first
\* derivation (the hardened-key error, or the key-material error of a normal
\* component before the hardened one).  With count = 0 it ends successfully.
\* When start + count overflows u32 it panics or, with wrapping arithmetic,
\* ends successfully.
C6_HardenedOutcome ==
    HardenedPath =>
        /\ pubkeys = <<>> /\ queries = <<>> /\ emitted = <<>>
        /\ pc \in Final \cup {"derive"}
        /\ pc \in Final =>
              IF count >= 1 /\ start + count < U32Mod
              THEN /\ pc = "error" /\ trace.derives = 1
                   /\ \/ err = "CannotDeriveFromHardenedKey"
                      \/ err = "Secp256k1" /\ parent # <<>> /\ ~parent[1].hardened
              ELSE IF count = 0
              THEN pc = "done" /\ trace.derives = 0
              ELSE /\ trace.derives = 0
                   /\ \/ pc = "panic" /\ err = "AddOverflow"
                      \/ pc = "done"

C6_Witness ==
    /\ HardenedPath /\ count >= 2
    /\ pc = "error" /\ err = "CannotDeriveFromHardenedKey"

\* C7 (as claimed): whenever --query is given the run makes exactly one fetch,
\* for that address, prints the JSON when the fetch succeeded, parses no xpub
\* and no path, derives nothing and makes no other query.
C7_QueryAlwaysFetches ==
    query # None =>
        /\ ~trace.xpub /\ ~trace.path /\ trace.derives = 0 /\ emitted = <<>>
        /\ pc \in Final =>
              /\ queries = <<query[1]>>
              /\ pc \in {"done", "error"}
              /\ pc = "done" <=> printed # None

\* C7 (amended): when --query is given the run parses no xpub and no path,
\* derives nothing and prints no balance line.  If --count is present and is
\* not a u32 the argument parser ends the run before any fetch; if
\* API_ADDRESS_URL_TEMPLATE is unset the run panics before any fetch.
\* Otherwise it makes exactly one fetch, for the queried address, and ends
\* successfully with the JSON printed when the fetch and its decoding
\* succeeded, and in an error with nothing printed when they did not.
C7_QueryMode ==
    query # None =>
        /\ ~trace.xpub /\ ~trace.path /\ ~trace.setup /\ trace.derives = 0
        /\ emitted = <<>> /\ pubkeys = <<>>
        /\ pc # "start"
        /\ pc \in {"usage", "panic", "query"} => queries = <<>> /\ printed = None
        /\ pc = "usage" => err = "InvalidValue"
        /\ pc = "panic" => err = "UrlTemplateNotSet"
        /\ pc \in {"qawait", "error", "done"} => queries = <<query[1]>>
        /\ pc = "error" => printed = None /\ err \in {"FetchFailed", "JsonParseFailed"}
        /\ pc = "done" => printed # None /\ err = "none"
        /\ pc \in {"usage", "panic", "query", "qawait", "error", "done"}

C7_Witness ==
    /\ query # None /\ pc = "done"
    /\ printed # None /\ queries = <<query[1]>>

\* C9: every started run terminates, and a scan makes at most count derivations and,
\* for each scanned kind, at most count balance queries (at most 4 * count in
\* all), never querying an address twice.
C9_BoundedByCount ==
    /\ (pc # "start") ~> (pc \in Final)
    /\ [](trace.setup =>
            /\ trace.derives <= count
            /\ Len(pubkeys) <= trace.derives
            /\ \A kd \in Range(KindOrder) :
                  Cardinality({j \in 1..Len(queries) : queries[j].kind = kd}) <= count
            /\ Len(queries) <= 4 * count
            /\ Cardinality(Range(queries)) = Len(queries)
            /\ Len(emitted) <= Len(queries))

C9_Witness ==
    /\ trace.setup /\ pc = "done"
    /\ count >= 2 /\ trace.derives = count
    /\ Len(queries) = 4 * count

\* C10: every derivation of the range is made before the first balance query:
\* while the derivation loop runs, and when a derivation or an increment
\* failed, no query was made and no line printed; once a query was made the
\* loop is over and has derived the count keys of the range.
C10_DeriveBeforeQuery ==
    trace.setup =>
        /\ (pc = "derive" \/ err \in DerivationErrors \cup {IncrementError}) =>
              queries = <<>> /\ emitted = <<>>
        /\ queries # <<>> =>
              /\ ~LoopCondition
              /\ trace.derives = count
              /\ Len(pubkeys) = count

C10_Witness ==
    /\ trace.setup /\ pc = "error" /\ err = IncrementError
    /\ Len(pubkeys) >= 2
    /\ queries = <<>> /\ emitted = <<>>

\* C8: for an extracted balance b, unit "btc" gives b divided by 100,000,000
\* rounded toward zero, unit "sat" gives b itself, every other unit gives the
\* InvalidUnit error; 800,000,000 gives 8 in btc and 800,000,000 in sat.
C8_UnitConversion ==
    (conv.run /\ conv.extracted.ok) =>
        LET b == conv.extracted.v
            out == conv.out
        IN /\ conv.unit = "btc" =>
                /\ out.ok /\ out.v >= 0
                /\ b - out.v * 100000000 \in 0..99999999
                /\ (b = 800000000 => out.v = 8)
           /\ conv.unit = "sat" => out.ok /\ out.v = b
           /\ conv.unit \notin {"btc", "sat"} => ~out.ok /\ out.e = "InvalidUnit"

C8_Witness ==
    /\ conv.run /\ conv.extracted.ok
    /\ conv.extracted.v = 800000000
    /\ conv.unit = "btc" /\ conv.out.ok /\ conv.out.v = 8

====
